---- MODULE Spec2Model ----
(***************************************************************************)
(* Model of display.py: the ANSI styled-line decoder (parse_ansi_line),    *)
(* the colour encoder (color_code_from_fg), the frame resampler            *)
(* (scale_lines) and the playback loop of main.                            *)
(*                                                                         *)
(* Text is a sequence of one-character strings; ESC stands for "\x1b" and  *)
(* NL for "\n".  Indices keep the 0-based values of the source, so the     *)
(* character ln[i] of the source is ln[i + 1] here.                        *)
(***************************************************************************)
EXTENDS Integers, Sequences, FiniteSets, TLC

ESC == "ESC"
NL == "NL"

RESET == <<ESC, "[", "0", "m">>
HIDE_CURSOR == <<ESC, "[", "?", "2", "5", "l">>
SHOW_CURSOR == <<ESC, "[", "?", "2", "5", "h">>
CLS == <<ESC, "[", "2", "J">>
HOME == <<ESC, "[", "H">>

\* Colour states: None, ("ansi256", idx), ("truecolor", r, g, b).
None == <<"None">>
Ansi256(idx) == <<"ansi256", idx>>
TrueColor(r, g, b) == <<"truecolor", r, g, b>>

(***************************************************************************)
(* Bounds of the explored inputs.                                          *)
(***************************************************************************)
MaxSegs == 3
MaxRows == 2
MaxScale == 3
MaxFrames == 3
MaxTime == 5
MaxPasses == 1
MaxOversleep == 1

(***************************************************************************)
(* int(text) and str(int)                                                  *)
(***************************************************************************)
Digits == <<"0", "1", "2", "3", "4", "5", "6", "7", "8", "9">>

IsDigit(c) == \E d \in 1..10 : Digits[d] = c

DigitVal(c) == (CHOOSE d \in 1..10 : Digits[d] = c) - 1

RECURSIVE DigitsVal(_, _)
DigitsVal(s, acc) ==
    IF s = <<>> THEN acc
    ELSE DigitsVal(Tail(s), acc * 10 + DigitVal(Head(s)))

\* int(field) of Python on sign and decimal digits: succeeds on an optional
\* sign followed by one or more digits, raises ValueError otherwise.
IntBody(f) == IF f # <<>> /\ Head(f) \in {"+", "-"} THEN Tail(f) ELSE f

IntOk(f) == IntBody(f) # <<>> /\ \A k \in 1..Len(IntBody(f)) : IsDigit(IntBody(f)[k])

IntVal(f) ==
    IF f # <<>> /\ Head(f) = "-" THEN 0 - DigitsVal(IntBody(f), 0)
    ELSE DigitsVal(IntBody(f), 0)

RECURSIVE NatToStr(_)
NatToStr(n) ==
    IF n < 10 THEN <<Digits[n + 1]>>
    ELSE Append(NatToStr(n \div 10), Digits[(n % 10) + 1])

IntToStr(n) == IF n < 0 THEN <<"-">> \o NatToStr(0 - n) ELSE NatToStr(n)

(***************************************************************************)
(* parse_ansi_line                                                         *)
(***************************************************************************)
\* The inner scan "while j < n and ln[j] != 'm': j += 1".
RECURSIVE FindM(_, _)
FindM(line, j) ==
    IF j < Len(line) /\ line[j + 1] # "m" THEN FindM(line, j + 1) ELSE j

\* str.split(";")
RECURSIVE SplitSemi(_, _, _)
SplitSemi(s, cur, acc) ==
    IF s = <<>> THEN Append(acc, cur)
    ELSE IF Head(s) = ";" THEN SplitSemi(Tail(s), <<>>, Append(acc, cur))
    ELSE SplitSemi(Tail(s), Append(cur, Head(s)), acc)

\* parts = params.split(";") if params else []
PartsOf(params) == IF params # <<>> THEN SplitSemi(params, <<>>, <<>>) ELSE <<>>

\* Variant: a malformed colour sequence falls back to None.
NewActiveResetOnBad(parts, act) ==
    IF parts = << <<"0">> >> THEN None
    ELSE IF Len(parts) >= 3 /\ parts[1] = <<"3", "8">> /\ parts[2] = <<"5">>
    THEN IF IntOk(parts[3]) THEN Ansi256(IntVal(parts[3])) ELSE None
    ELSE IF Len(parts) >= 5 /\ parts[1] = <<"3", "8">> /\ parts[2] = <<"2">>
    THEN IF IntOk(parts[3]) /\ IntOk(parts[4]) /\ IntOk(parts[5])
         THEN TrueColor(IntVal(parts[3]), IntVal(parts[4]), IntVal(parts[5]))
         ELSE None
    ELSE act

\* Variant: any list whose first field is "0" resets.
NewActiveLeadingZero(parts, act) ==
    IF Len(parts) >= 1 /\ parts[1] = <<"0">> THEN None
    ELSE IF Len(parts) >= 3 /\ parts[1] = <<"3", "8">> /\ parts[2] = <<"5">>
    THEN IF IntOk(parts[3]) THEN Ansi256(IntVal(parts[3])) ELSE act
    ELSE IF Len(parts) >= 5 /\ parts[1] = <<"3", "8">> /\ parts[2] = <<"2">>
    THEN IF IntOk(parts[3]) /\ IntOk(parts[4]) /\ IntOk(parts[5])
         THEN TrueColor(IntVal(parts[3]), IntVal(parts[4]), IntVal(parts[5]))
         ELSE act
    ELSE act

\* The if/elif chain that decides the active colour after one sequence.
NewActive(parts, act) ==
    IF parts = << <<"0">> >> THEN None
    ELSE IF Len(parts) >= 3 /\ parts[1] = <<"3", "8">> /\ parts[2] = <<"5">>
    THEN IF IntOk(parts[3]) THEN Ansi256(IntVal(parts[3])) ELSE act
    ELSE IF Len(parts) >= 5 /\ parts[1] = <<"3", "8">> /\ parts[2] = <<"2">>
    THEN IF IntOk(parts[3]) /\ IntOk(parts[4]) /\ IntOk(parts[5])
         THEN TrueColor(IntVal(parts[3]), IntVal(parts[4]), IntVal(parts[5]))
         ELSE act
    ELSE act

\* ch == "\x1b" and i + 1 < n and ln[i + 1] == "["
IsIntroducer(line, k) ==
    k < Len(line) /\ line[k + 1] = ESC /\ k + 1 < Len(line) /\ line[k + 2] = "["

\* params = ln[i + 2 : j]
ParamsAt(line, k) == SubSeq(line, k + 3, FindM(line, k + 2))

\* The whole function: the pair (chars, fgs) it returns.
RECURSIVE ParseFrom(_, _, _, _, _)
ParseFrom(line, k, act, cs, fs) ==
    IF k >= Len(line) THEN [chars |-> cs, fgs |-> fs]
    ELSE IF IsIntroducer(line, k)
    THEN IF FindM(line, k + 2) >= Len(line)
         THEN [chars |-> cs, fgs |-> fs]
         ELSE ParseFrom(line, FindM(line, k + 2) + 1,
                        NewActive(PartsOf(ParamsAt(line, k)), act), cs, fs)
    ELSE IF line[k + 1] # NL
    THEN ParseFrom(line, k + 1, act, Append(cs, line[k + 1]), Append(fs, act))
    ELSE ParseFrom(line, k + 1, act, cs, fs)

parse_ansi_line(line) == ParseFrom(line, 0, None, <<>>, <<>>)

(***************************************************************************)
(* color_code_from_fg                                                      *)
(***************************************************************************)
color_code_from_fg(fg) ==
    IF fg = None THEN <<>>
    ELSE IF fg[1] = "truecolor"
    THEN <<ESC, "[", "3", "8", ";", "2", ";">> \o IntToStr(fg[2]) \o <<";">>
             \o IntToStr(fg[3]) \o <<";">> \o IntToStr(fg[4]) \o <<"m">>
    ELSE IF fg[1] = "ansi256"
    THEN <<ESC, "[", "3", "8", ";", "5", ";">> \o IntToStr(fg[2]) \o <<"m">>
    ELSE <<>>

(***************************************************************************)
(* scale_lines.  A scale is a fraction n/d with d > 0; the products and    *)
(* quotients the source truncates with int() are taken exactly.            *)
(***************************************************************************)
Frac(n, d) == [n |-> n, d |-> d]

Max(a, b) == IF a >= b THEN a ELSE b
Min(a, b) == IF a <= b THEN a ELSE b

FracLe(a, b) == a.n * b.d <= b.n * a.d
FracMax(a, b) == IF FracLe(b, a) THEN a ELSE b
FracMin(a, b) == IF FracLe(a, b) THEN a ELSE b

\* int(k * s) and int(k / s) for k >= 0 and s > 0
MulFloor(k, sc) == (k * sc.n) \div sc.d
DivFloor(k, sc) == (k * sc.d) \div sc.n

\* abs(s - 1.0) < 1e-6
NearOne(sc) ==
    (IF sc.n >= sc.d THEN sc.n - sc.d ELSE sc.d - sc.n) * 1000000 < sc.d

\* The scale chosen when fit_to_terminal is set; tsize = (columns, lines).
FitScale(w, h, tsize) ==
    LET s_w == Frac(tsize[1], Max(1, w))
        s_h == Frac(Max(1, tsize[2] - 1), Max(1, h))
        m   == FracMin(s_w, s_h)
    IN  IF m.n <= 0 THEN Frac(1, 1) ELSE m

\* s = max(0.01, float(scale))
FixedScale(sc) == FracMax(Frac(1, 100), sc)

\* prev_fg at the start of a row
InitialPrevFg == None

\* The column loop of one output row: the list "parts".
RECURSIVE RowParts(_, _, _, _, _, _)
RowParts(chars_row, fgs_row, sc, co, prev_fg, parts) ==
    LET row_w     == Len(chars_row)
        tgt_w_row == Max(1, MulFloor(row_w, sc))
        cs        == Min(row_w - 1, DivFloor(co, sc))
        fg        == fgs_row[cs + 1]
        ch        == chars_row[cs + 1]
    IN  IF co >= tgt_w_row THEN Append(parts, RESET)
        ELSE IF fg # prev_fg
        THEN RowParts(chars_row, fgs_row, sc, co + 1, fg,
                      parts \o << (IF fg = None THEN RESET ELSE color_code_from_fg(fg)),
                                  <<ch>> >>)
        ELSE RowParts(chars_row, fgs_row, sc, co + 1, prev_fg, Append(parts, <<ch>>))

\* "".join(parts)
RECURSIVE Join(_)
Join(parts) == IF parts = <<>> THEN <<>> ELSE Head(parts) \o Join(Tail(parts))

\* src_h, src_w, tgt_w, tgt_h as computed after decoding.
SrcH(prs, h) == IF Len(prs) = 0 THEN Max(1, h) ELSE Len(prs)
SrcW(prs, w) ==
    LET first == IF Len(prs) > 0 THEN Len(prs[1].chars) ELSE 0
    IN  IF first = 0 THEN Max(1, w) ELSE first

\* Variant: the output row index taken as the source row index.
SrcRowUnscaled(sh, r, sc) == Min(sh - 1, r)

\* rs = min(src_h - 1, int(ro / s))
SrcRow(sh, r, sc) == Min(sh - 1, DivFloor(r, sc))

\* One output row: the parts of its text.
OutRowParts(prow, sc) ==
    IF Len(prow.chars) = 0 THEN <<RESET>>
    ELSE RowParts(prow.chars, prow.fgs, sc, 0, InitialPrevFg, <<>>)

\* The row loop; fails with IndexError when parsed[rs] does not exist.
RECURSIVE RowLoop(_, _, _, _, _, _)
RowLoop(prs, sh, th, sc, r, acc) ==
    IF r >= th THEN [ok |-> TRUE, lines |-> acc]
    ELSE IF SrcRow(sh, r, sc) >= Len(prs) THEN [ok |-> FALSE, lines |-> <<>>]
    ELSE RowLoop(prs, sh, th, sc, r + 1,
                 Append(acc, Join(OutRowParts(prs[SrcRow(sh, r, sc) + 1], sc))))

ParseAll(lns) == [k \in 1..Len(lns) |-> parse_ansi_line(lns[k])]

\* The resampling pass (everything after the early return).
ResamplePass(lns, w, h, sc) ==
    LET prs == ParseAll(lns)
        sh  == SrcH(prs, h)
    IN  RowLoop(prs, sh, Max(1, MulFloor(sh, sc)), sc, 0, <<>>)

\* The whole function for an effective scale sc.
ScaleWith(lns, w, h, sc) ==
    IF NearOne(sc) THEN [ok |-> TRUE, lines |-> lns] ELSE ResamplePass(lns, w, h, sc)

(***************************************************************************)
(* Input lines: concatenations of up to MaxSegs segments.                  *)
(***************************************************************************)
Sgr(params) == <<ESC, "[">> \o params \o <<"m">>

Segments ==
    { <<"A">>, <<"B">>, <<NL>>, <<ESC>>,
      Sgr(<<"0">>), Sgr(<<>>),
      Sgr(<<"3", "8", ";", "5", ";", "1">>),
      Sgr(<<"3", "8", ";", "5", ";", "x">>),
      Sgr(<<"3", "8", ";", "2", ";", "1", ";", "2", ";", "3">>),
      Sgr(<<"3", "8", ";", "2", ";", "1", ";", "x", ";", "3">>),
      Sgr(<<"1">>), Sgr(<<"3", "1">>), Sgr(<<"0", ";", "1">>),
      Sgr(<<"3", "8", ";", "5", ";", "2", ";", "1">>),
      Sgr(<<"3", "8", ";", "2", ";", "3", ";", "2", ";", "1", ";", "1">>),
      <<ESC, "[", "3", "1">> }

RECURSIVE LinesOf(_)
LinesOf(k) ==
    IF k = 0 THEN { <<>> }
    ELSE LET shorter == LinesOf(k - 1)
         IN  shorter \cup { l \o s : l \in shorter, s \in Segments }

(***************************************************************************)
(* State.  parse_ansi_line: ln, i, active, chars, fgs and its position     *)
(* ppc.  scale_lines: its arguments lines, width, height, scale,           *)
(* fit_to_terminal, its locals s, parsed, src_h, src_w, tgt_w, tgt_h, ro,  *)
(* new_lines, its position spc and its outcome result; row_parts records   *)
(* the list "parts" of every row appended to new_lines.  main: frames,     *)
(* loop, no_clear, frame_dt, idx, start_time, sleep_for, the clock now,    *)
(* the writes to stdout out, flushed, the exception in flight exc, the     *)
(* position mpc; paces, rendered and passes count the pacing points, the   *)
(* frames written and the wrap-arounds so far.                             *)
(***************************************************************************)
VARIABLES ln, i, active, chars, fgs, ppc,
          lines, width, height, scale, fit_to_terminal,
          s, parsed, src_h, src_w, tgt_w, tgt_h, ro, new_lines, row_parts,
          spc, result,
          frames, loop, no_clear, frame_dt, idx, start_time, sleep_for, now,
          out, flushed, exc, mpc, paces, rendered, passes

pvars == <<ln, i, active, chars, fgs, ppc>>

argvars == <<lines, width, height, scale, fit_to_terminal>>

svars == <<s, parsed, src_h, src_w, tgt_w, tgt_h, ro, new_lines, row_parts,
           spc, result>>

mvars == <<frames, loop, no_clear, frame_dt, idx, start_time, sleep_for, now,
           out, flushed, exc, mpc, paces, rendered, passes>>

vars == <<pvars, argvars, svars, mvars>>

\* The parts of the state a specification does not use.
ParseIdle ==
    /\ ln = <<>> /\ i = 0 /\ active = None /\ chars = <<>> /\ fgs = <<>>
    /\ ppc = "idle"

ScaleIdle ==
    /\ s = Frac(1, 1) /\ parsed = <<>> /\ src_h = 0 /\ src_w = 0
    /\ tgt_w = 0 /\ tgt_h = 0 /\ ro = 0 /\ new_lines = <<>>
    /\ row_parts = <<>> /\ spc = "idle" /\ result = <<>>

ArgsIdle ==
    /\ lines = <<>> /\ width = 0 /\ height = 0 /\ scale = Frac(1, 1)
    /\ fit_to_terminal = FALSE

MainIdle ==
    /\ frames = <<>> /\ loop = FALSE /\ no_clear = FALSE /\ frame_dt = 1
    /\ idx = 0 /\ start_time = 0 /\ sleep_for = 0 /\ now = 0
    /\ out = <<>> /\ flushed = TRUE /\ exc = "none" /\ mpc = "idle"
    /\ paces = 0 /\ rendered = 0 /\ passes = 0

ParseInit ==
    /\ ln \in LinesOf(MaxSegs)
    /\ i = 0
    /\ active = None
    /\ chars = <<>>
    /\ fgs = <<>>
    /\ ppc = "scan"
    /\ ArgsIdle /\ ScaleIdle /\ MainIdle

\* A terminated sequence: decide the colour, skip past the closing "m".
ParseEscape ==
    /\ ppc = "scan" /\ i < Len(ln)
    /\ IsIntroducer(ln, i)
    /\ FindM(ln, i + 2) < Len(ln)
    /\ active' = NewActive(PartsOf(ParamsAt(ln, i)), active)
    /\ i' = FindM(ln, i + 2) + 1
    /\ UNCHANGED <<ln, chars, fgs, ppc, argvars, svars, mvars>>

\* Variant: an introducer with no closing "m" is taken as a glyph.
ParseBreakAsGlyph ==
    /\ ppc = "scan" /\ i < Len(ln)
    /\ IsIntroducer(ln, i)
    /\ FindM(ln, i + 2) >= Len(ln)
    /\ chars' = Append(chars, ln[i + 1]) /\ fgs' = Append(fgs, active)
    /\ i' = i + 1
    /\ UNCHANGED <<ln, active, ppc, argvars, svars, mvars>>

\* An introducer with no closing "m": break.
ParseBreak ==
    /\ ppc = "scan" /\ i < Len(ln)
    /\ IsIntroducer(ln, i)
    /\ FindM(ln, i + 2) >= Len(ln)
    /\ ppc' = "done"
    /\ UNCHANGED <<ln, i, active, chars, fgs, argvars, svars, mvars>>

\* Any other character: a glyph, unless it is a newline.
ParseGlyph ==
    /\ ppc = "scan" /\ i < Len(ln)
    /\ ~IsIntroducer(ln, i)
    /\ IF ln[i + 1] # NL
       THEN chars' = Append(chars, ln[i + 1]) /\ fgs' = Append(fgs, active)
       ELSE UNCHANGED <<chars, fgs>>
    /\ i' = i + 1
    /\ UNCHANGED <<ln, active, ppc, argvars, svars, mvars>>

\* End of the line: return chars, fgs.
ParseReturn ==
    /\ ppc = "scan" /\ i >= Len(ln)
    /\ ppc' = "done"
    /\ UNCHANGED <<ln, i, active, chars, fgs, argvars, svars, mvars>>

ParseNext == ParseEscape \/ ParseBreak \/ ParseGlyph \/ ParseReturn

ParseSpec == ParseInit /\ [][ParseNext]_vars

\* The stepwise scan and the function agree on the returned pair.
ParseAgrees == ppc = "done" => parse_ansi_line(ln) = [chars |-> chars, fgs |-> fgs]

(***************************************************************************)
(* Properties of parse_ansi_line                                           *)
(***************************************************************************)
\* The scan stands on an introducer whose closing "m" exists.
AtTerminated ==
    ppc = "scan" /\ i < Len(ln) /\ IsIntroducer(ln, i) /\ FindM(ln, i + 2) < Len(ln)

\* The scan stands on an introducer with no "m" after it.
AtUnterminated ==
    ppc = "scan" /\ i < Len(ln) /\ IsIntroducer(ln, i) /\ FindM(ln, i + 2) >= Len(ln)

CurParts == PartsOf(ParamsAt(ln, i))

\* The sequence is skipped whole and yields no glyph.
Consumed ==
    /\ i' = FindM(ln, i + 2) + 1
    /\ ln[i'] = "m"
    /\ chars' = chars /\ fgs' = fgs /\ ppc' = "scan"

\* A step that appends a glyph pairs it with the active colour.
GlyphTakesActive ==
    Len(fgs') = Len(fgs) + 1 =>
        /\ fgs' = Append(fgs, active)
        /\ chars' = Append(chars, ln[i + 1])
        /\ active' = active

\* C4: a terminated sequence with an empty parameter list or with exactly
\* ["0"] sets the active colour to None, whatever it was before, and the
\* glyphs after it are paired with None.
C4_EmptyOrZeroResets ==
    [][ /\ (AtTerminated /\ CurParts \in { <<>>, << <<"0">> >> } => active' = None)
        /\ GlyphTakesActive ]_vars

\* C7: an introducer with no "m" after it ends the scan without an error;
\* the result is what was decoded before the introducer, and nothing at or
\* after the introducer is a glyph.
C7_UnterminatedStops ==
    /\ [][AtUnterminated => ppc' = "done" /\ chars' = chars /\ fgs' = fgs /\ i' = i]_vars
    /\ [](ppc = "done" /\ i < Len(ln) =>
            /\ IsIntroducer(ln, i)
            /\ \A k \in (i + 3)..Len(ln) : ln[k] # "m"
            /\ [chars |-> chars, fgs |-> fgs] = parse_ansi_line(SubSeq(ln, 1, i))
            /\ Len(chars) <= i)

C7_Witness ==
    /\ ppc = "done"
    /\ ln = Sgr(<<"3", "8", ";", "5", ";", "1">>) \o <<"B">> \o <<ESC, "[", "3", "1">>
    /\ i = Len(ln) - 4
    /\ chars = <<"B">>
    /\ fgs = <<Ansi256(1)>>

\* A 38;5;idx or 38;2;r;g;b list with a field that is not a number.
MalformedColor(parts) ==
    \/ Len(parts) = 3 /\ parts[1] = <<"3", "8">> /\ parts[2] = <<"5">>
          /\ ~IntOk(parts[3])
    \/ Len(parts) = 5 /\ parts[1] = <<"3", "8">> /\ parts[2] = <<"2">>
          /\ \E k \in 3..5 : ~IntOk(parts[k])

\* C8: a terminated 38;5;idx or 38;2;r;g;b sequence with a non-numeric
\* field raises nothing, leaves the active colour as it was and yields no
\* glyph; the glyphs after it keep the prior colour.
C8_MalformedKeepsColor ==
    [][ /\ (AtTerminated /\ MalformedColor(CurParts) => active' = active /\ Consumed)
        /\ GlyphTakesActive ]_vars

C8_Witness ==
    /\ ppc = "done" /\ i = Len(ln)
    /\ ln = Sgr(<<"3", "8", ";", "5", ";", "1">>)
              \o Sgr(<<"3", "8", ";", "2", ";", "1", ";", "x", ";", "3">>) \o <<"A">>
    /\ chars = <<"A">>
    /\ fgs = <<Ansi256(1)>>

\* The parameter lists C9 names as the only ones that change the colour.
ExactForms(parts) ==
    \/ parts = <<>>
    \/ parts = << <<"0">> >>
    \/ Len(parts) = 3 /\ parts[1] = <<"3", "8">> /\ parts[2] = <<"5">>
    \/ Len(parts) = 5 /\ parts[1] = <<"3", "8">> /\ parts[2] = <<"2">>

\* The same with the two colour forms read as prefixes.
PrefixForms(parts) ==
    \/ parts = <<>>
    \/ parts = << <<"0">> >>
    \/ Len(parts) >= 3 /\ parts[1] = <<"3", "8">> /\ parts[2] = <<"5">>
    \/ Len(parts) >= 5 /\ parts[1] = <<"3", "8">> /\ parts[2] = <<"2">>

\* C9 as stated: the active colour changes only on an empty list, ["0"],
\* exactly three fields 38;5;idx or exactly five fields 38;2;r;g;b; every
\* other terminated list leaves it unchanged; the sequence is consumed.
C9_OnlyExactForms ==
    [][ /\ (active' # active => AtTerminated /\ ExactForms(CurParts))
        /\ (AtTerminated => Consumed) ]_vars

\* C9 amended: the active colour changes only on an empty list, ["0"], a
\* list of three or more fields starting 38;5 or a list of five or more
\* fields starting 38;2; every other terminated list leaves it unchanged;
\* every terminated sequence is consumed and yields no glyph.
C9_OnlyPrefixForms ==
    [][ /\ (active' # active => AtTerminated /\ PrefixForms(CurParts))
        /\ (AtTerminated => Consumed) ]_vars

C9_Witness ==
    /\ ppc = "done" /\ i = Len(ln)
    /\ ln = Sgr(<<"3", "8", ";", "5", ";", "2", ";", "1">>)
              \o Sgr(<<"0", ";", "1">>) \o <<"A">>
    /\ chars = <<"A">>
    /\ fgs = <<Ansi256(2)>>
(***************************************************************************)
(* scale_lines, statement by statement                                     *)
(***************************************************************************)
RowI1 == Sgr(<<"3", "8", ";", "5", ";", "1">>)
RowT123 == Sgr(<<"3", "8", ";", "2", ";", "1", ";", "2", ";", "3">>)

\* Raw lines a frame is made of: an empty line, a line of escapes only,
\* uncoloured text, text whose first cell has no colour, text whose first
\* cell is coloured, and one colour spelled in two ways.
RowLines ==
    { <<>>,
      Sgr(<<"0">>) \o <<NL>>,
      <<"A", "B">>,
      <<"A">> \o RowI1 \o <<"B">> \o Sgr(<<"0">>) \o <<"C">>,
      RowT123 \o <<"A">> \o RowI1 \o <<"B">>,
      RowI1 \o <<"A">> \o Sgr(<<"3", "8", ";", "5", ";", "0", "1">>) \o <<"B", "C">> }

RECURSIVE FramesOf(_)
FramesOf(k) ==
    IF k = 0 THEN { <<>> }
    ELSE LET shorter == FramesOf(k - 1)
         IN  shorter \cup { Append(f, r) : f \in shorter, r \in RowLines }

\* Values of --scale, of the declared (width, height) and of the terminal
\* size (columns, lines) reported to the call.
ScaleValues == { Frac(0, 1), Frac(0 - 1, 1), Frac(1, 2), Frac(1, 1), Frac(3, 2), Frac(2, 1) }
Dims == { <<0, 0>>, <<2, 2>>, <<80, 40>> }
TermSizes == { <<80, 24>>, <<40, 20>>, <<4, 3>>, <<3, 5>>, <<0, 24>> }

ScaleInit ==
    /\ lines \in FramesOf(MaxRows)
    /\ \E d \in Dims : width = d[1] /\ height = d[2]
    /\ fit_to_terminal \in BOOLEAN
    /\ scale \in (IF fit_to_terminal THEN { Frac(1, 1) } ELSE ScaleValues)
    /\ s = Frac(1, 1) /\ parsed = <<>> /\ src_h = 0 /\ src_w = 0
    /\ tgt_w = 0 /\ tgt_h = 0 /\ ro = 0 /\ new_lines = <<>>
    /\ row_parts = <<>> /\ result = <<>>
    /\ spc = "decide"
    /\ ParseIdle /\ MainIdle

\* if fit_to_terminal: the scale from the terminal size read now (explored
\* for the terminal sizes that give a scale of at most MaxScale).
DecideFit ==
    /\ spc = "decide" /\ fit_to_terminal
    /\ \E tsize \in TermSizes :
          /\ FracLe(FitScale(width, height, tsize), Frac(MaxScale, 1))
          /\ s' = FitScale(width, height, tsize)
    /\ spc' = "check"
    /\ UNCHANGED <<parsed, src_h, src_w, tgt_w, tgt_h, ro, new_lines, row_parts, result>>
    /\ UNCHANGED <<pvars, argvars, mvars>>

\* else: s = max(0.01, float(scale))
DecideFixed ==
    /\ spc = "decide" /\ ~fit_to_terminal
    /\ s' = FixedScale(scale)
    /\ spc' = "check"
    /\ UNCHANGED <<parsed, src_h, src_w, tgt_w, tgt_h, ro, new_lines, row_parts, result>>
    /\ UNCHANGED <<pvars, argvars, mvars>>

\* if abs(s - 1.0) < 1e-6: return lines
ReturnUnchanged ==
    /\ spc = "check" /\ NearOne(s)
    /\ result' = lines
    /\ spc' = "returned"
    /\ UNCHANGED <<s, parsed, src_h, src_w, tgt_w, tgt_h, ro, new_lines, row_parts>>
    /\ UNCHANGED <<pvars, argvars, mvars>>

\* Decode every line and compute the source and target sizes.
DecodeLines ==
    /\ spc = "check" /\ ~NearOne(s)
    /\ parsed' = ParseAll(lines)
    /\ src_h' = SrcH(parsed', height)
    /\ src_w' = SrcW(parsed', width)
    /\ tgt_w' = Max(1, MulFloor(src_w', s))
    /\ tgt_h' = Max(1, MulFloor(src_h', s))
    /\ ro' = 0
    /\ new_lines' = <<>>
    /\ spc' = "rows"
    /\ UNCHANGED <<s, row_parts, result>>
    /\ UNCHANGED <<pvars, argvars, mvars>>

\* parsed[rs] with rs outside the list: IndexError leaves the function.
RowIndexError ==
    /\ spc = "rows" /\ ro < tgt_h
    /\ SrcRow(src_h, ro, s) >= Len(parsed)
    /\ spc' = "raised"
    /\ UNCHANGED <<s, parsed, src_h, src_w, tgt_w, tgt_h, ro, new_lines, row_parts, result>>
    /\ UNCHANGED <<pvars, argvars, mvars>>

\* row_w == 0: the row is a single reset code.
RowEmpty ==
    /\ spc = "rows" /\ ro < tgt_h
    /\ SrcRow(src_h, ro, s) < Len(parsed)
    /\ Len(parsed[SrcRow(src_h, ro, s) + 1].chars) = 0
    /\ new_lines' = Append(new_lines, RESET)
    /\ row_parts' = Append(row_parts, <<RESET>>)
    /\ ro' = ro + 1
    /\ UNCHANGED <<s, parsed, src_h, src_w, tgt_w, tgt_h, spc, result>>
    /\ UNCHANGED <<pvars, argvars, mvars>>

\* Otherwise the column loop builds the row.
RowBuild ==
    /\ spc = "rows" /\ ro < tgt_h
    /\ SrcRow(src_h, ro, s) < Len(parsed)
    /\ Len(parsed[SrcRow(src_h, ro, s) + 1].chars) > 0
    /\ LET prow  == parsed[SrcRow(src_h, ro, s) + 1]
           parts == RowParts(prow.chars, prow.fgs, s, 0, InitialPrevFg, <<>>)
       IN  /\ new_lines' = Append(new_lines, Join(parts))
           /\ row_parts' = Append(row_parts, parts)
    /\ ro' = ro + 1
    /\ UNCHANGED <<s, parsed, src_h, src_w, tgt_w, tgt_h, spc, result>>
    /\ UNCHANGED <<pvars, argvars, mvars>>

\* return new_lines
ReturnNew ==
    /\ spc = "rows" /\ ro >= tgt_h
    /\ result' = new_lines
    /\ spc' = "returned"
    /\ UNCHANGED <<s, parsed, src_h, src_w, tgt_w, tgt_h, ro, new_lines, row_parts>>
    /\ UNCHANGED <<pvars, argvars, mvars>>

ScaleNext ==
    \/ DecideFit \/ DecideFixed \/ ReturnUnchanged \/ DecodeLines
    \/ RowIndexError \/ RowEmpty \/ RowBuild \/ ReturnNew

ScaleSpec == ScaleInit /\ [][ScaleNext]_vars

\* The statements and the function agree on the outcome.
ScaleAgrees ==
    /\ spc = "returned" => ScaleWith(lines, width, height, s) = [ok |-> TRUE, lines |-> result]
    /\ spc = "raised" => ~ScaleWith(lines, width, height, s).ok

(***************************************************************************)
(* Properties of scale_lines                                               *)
(***************************************************************************)
\* The source row that output row r (counted from 1) is built from.
SourceOf(r) == parsed[Min(Len(parsed) - 1, DivFloor(r - 1, s)) + 1]

\* Width of the output row built from prow, and the source column of its
\* column c (counted from 1).
TargetWidth(prow) == Max(1, MulFloor(Len(prow.chars), s))
SourceCol(prow, c) == Min(Len(prow.chars) - 1, DivFloor(c - 1, s)) + 1

SampledFgs(prow) == [c \in 1..TargetWidth(prow) |-> prow.fgs[SourceCol(prow, c)]]
SampledChars(prow) == [c \in 1..TargetWidth(prow) |-> prow.chars[SourceCol(prow, c)]]

\* Number of maximal runs of equal consecutive entries.
RunCount(seq) == Cardinality({ k \in 1..Len(seq) : k = 1 \/ seq[k] # seq[k - 1] })

\* In a list of parts a glyph is one character and a code is longer.
CodesBeforeGlyphs(parts) ==
    Cardinality({ k \in 1..(Len(parts) - 1) : Len(parts[k]) > 1 })
GlyphCount(parts) == Cardinality({ k \in 1..Len(parts) : Len(parts[k]) = 1 })

\* The output rows built so far that come from a source row with glyphs.
BuiltRows == { r \in 1..Len(row_parts) : Len(SourceOf(r).chars) >= 1 }

\* C5 as stated: the first cell of a row always emits a transition code
\* (the reset code when its colour is None) and the number of transition
\* codes before glyphs equals the number of colour runs of the row; at
\* scale 2.0 that is the number of colour runs of the source row.
C5_SentinelForcesFirstCode ==
    \A r \in BuiltRows :
        /\ Len(row_parts[r][1]) > 1
        /\ CodesBeforeGlyphs(row_parts[r]) = RunCount(SampledFgs(SourceOf(r)))
        /\ s = Frac(2, 1) =>
              CodesBeforeGlyphs(row_parts[r]) = RunCount(SourceOf(r).fgs)

\* C6: scale_lines raises no error on degenerate geometry: a frame with
\* zero lines, a row with zero glyphs and a scale of zero or less all end
\* in a returned sequence of lines.
C6_NeverRaises ==
    /\ spc # "raised"
    /\ spc = "returned" /\ ~NearOne(s) /\ lines = <<>> => result = <<>>

\* C10: for an effective scale other than 1.0 and a frame of sourceH >= 1
\* rows the output has max(1, floor(sourceH * s)) rows; the row ro comes
\* from source row min(sourceH - 1, floor(ro / s)); a source row of
\* rowLength >= 1 glyphs gives max(1, floor(rowLength * s)) glyphs, the
\* glyph and colour at column co being those of source column
\* min(rowLength - 1, floor(co / s)), and the row ends with the reset
\* code; at scale 2.0 every source cell fills two consecutive cells; the
\* pass run at scale 1.0 gives back the glyphs of every line.
C10_NearestNeighbour ==
    /\ spc \in {"rows", "returned"} /\ ~NearOne(s) /\ Len(lines) >= 1 =>
          /\ src_h = Len(lines)
          /\ tgt_h = Max(1, MulFloor(Len(lines), s))
          /\ Len(new_lines) = ro /\ ro <= tgt_h
          /\ spc = "returned" => Len(result) = tgt_h /\ result = new_lines
          /\ \A r \in 1..Len(new_lines) :
                LET srcLine == lines[Min(Len(lines) - 1, DivFloor(r - 1, s)) + 1]
                    prow    == parse_ansi_line(srcLine)
                    dec     == parse_ansi_line(new_lines[r])
                    n       == Len(new_lines[r])
                IN  Len(prow.chars) >= 1 =>
                      /\ GlyphCount(row_parts[r]) = TargetWidth(prow)
                      /\ Join(row_parts[r]) = new_lines[r]
                      /\ dec.chars = SampledChars(prow)
                      /\ dec.fgs = SampledFgs(prow)
                      /\ SubSeq(new_lines[r], n - 3, n) = RESET
                      /\ s = Frac(2, 1) =>
                            /\ Len(dec.chars) = 2 * Len(prow.chars)
                            /\ \A k \in 1..Len(prow.chars) :
                                  /\ dec.chars[2 * k - 1] = prow.chars[k]
                                  /\ dec.chars[2 * k] = prow.chars[k]
                                  /\ dec.fgs[2 * k - 1] = prow.fgs[k]
                                  /\ dec.fgs[2 * k] = prow.fgs[k]
    /\ spc = "decide" /\ Len(lines) >= 1 =>
          LET forced == ResamplePass(lines, width, height, Frac(1, 1))
          IN  /\ forced.ok
              /\ Len(forced.lines) = Len(lines)
              /\ \A r \in 1..Len(lines) :
                    Len(parse_ansi_line(lines[r]).chars) >= 1 =>
                      parse_ansi_line(forced.lines[r]).chars
                          = parse_ansi_line(lines[r]).chars

C10_Witness ==
    /\ spc = "returned" /\ s = Frac(3, 2)
    /\ Len(lines) = 2 /\ Len(result) = 3
    /\ Len(parsed[1].chars) = 2 /\ Len(parsed[2].chars) = 3
    /\ parse_ansi_line(result[1]).chars = <<"A", "A", "B">>
    /\ parse_ansi_line(result[3]).chars = <<"A", "A", "B", "C">>

(***************************************************************************)
(* main: the playback loop                                                 *)
(***************************************************************************)
\* The "lines" of the frames played: no line, or one coloured line.
FrameChoices ==
    { <<>>,
      << RowI1 \o <<"A">> >> }

RECURSIVE FrameSeqs(_)
FrameSeqs(k) ==
    IF k = 1 THEN { <<f>> : f \in FrameChoices }
    ELSE LET shorter == FrameSeqs(k - 1)
         IN  shorter \cup { Append(fs, f) : fs \in shorter, f \in FrameChoices }

\* Frame intervals 1 / fps, in clock ticks.
FrameDts == {2}

\* The writes of one frame: HOME, then every line followed by "\n".
RECURSIVE LineWrites(_)
LineWrites(lns) ==
    IF lns = <<>> THEN <<>> ELSE <<Head(lns), <<NL>> >> \o LineWrites(Tail(lns))

FrameWrites(lns) == <<HOME>> \o LineWrites(lns)

\* args.fit or abs(args.scale - 1.0) > 1e-6
ScalingRequested ==
    \/ fit_to_terminal
    \/ (IF scale.n >= scale.d THEN scale.n - scale.d ELSE scale.d - scale.n) * 1000000
          > scale.d

\* The scales scale_lines can settle on for the current call.
CallScales ==
    IF fit_to_terminal
    THEN { FitScale(width, height, t) : t \in
             { u \in TermSizes : FracLe(FitScale(width, height, u), Frac(MaxScale, 1)) } }
    ELSE { FixedScale(scale) }

\* Variant: one frame interval after every frame.
SleepOneInterval(st, k, dt, t) == dt

\* sleep_for = next_time - time.perf_counter()
SleepFor(st, k, dt, t) == (st + k * dt) - t

\* Positions inside the try block, and those where the program runs.
LoopPcs == {"try", "fetch", "write", "advance", "pace", "sleep"}
RunPcs == {"fetch", "write", "advance", "pace"}

PlayInit ==
    /\ frames \in FrameSeqs(MaxFrames)
    /\ loop \in BOOLEAN
    /\ no_clear \in BOOLEAN
    /\ frame_dt \in FrameDts
    /\ fit_to_terminal \in BOOLEAN
    /\ scale \in (IF fit_to_terminal THEN { Frac(1, 1) } ELSE { Frac(1, 1), Frac(2, 1) })
    /\ width = 2 /\ height = 2
    /\ lines = <<>>
    /\ idx = 0 /\ start_time = 0 /\ sleep_for = 0 /\ now = 0
    /\ out = <<>> /\ flushed = TRUE /\ exc = "none"
    /\ paces = 0 /\ rendered = 0 /\ passes = 0
    /\ mpc = "init"
    /\ ParseIdle /\ ScaleIdle

\* Hide the cursor, clear unless --no-clear, home, flush.
Setup ==
    /\ mpc = "init"
    /\ out' = out \o <<HIDE_CURSOR>> \o (IF ~no_clear THEN <<CLS>> ELSE <<>>) \o <<HOME>>
    /\ flushed' = TRUE
    /\ mpc' = "try"
    /\ UNCHANGED <<frames, loop, no_clear, frame_dt, idx, start_time, sleep_for, now,
                   exc, paces, rendered, passes>>
    /\ UNCHANGED <<pvars, argvars, svars>>

\* idx = 0; start_time = time.perf_counter()
EnterTry ==
    /\ mpc = "try"
    /\ idx' = 0
    /\ start_time' = now
    /\ mpc' = "fetch"
    /\ UNCHANGED <<frames, loop, no_clear, frame_dt, sleep_for, now, out, flushed,
                   exc, paces, rendered, passes>>
    /\ UNCHANGED <<pvars, argvars, svars>>

\* Fetch the frame's lines and scale them when scaling is requested.
Fetch ==
    /\ mpc = "fetch"
    /\ IF ScalingRequested
       THEN \E sc \in CallScales :
              /\ ScaleWith(frames[idx + 1], width, height, sc).ok
              /\ lines' = ScaleWith(frames[idx + 1], width, height, sc).lines
       ELSE lines' = frames[idx + 1]
    /\ mpc' = "write"
    /\ UNCHANGED <<width, height, scale, fit_to_terminal>>
    /\ UNCHANGED <<frames, loop, no_clear, frame_dt, idx, start_time, sleep_for, now,
                   out, flushed, exc, paces, rendered, passes>>
    /\ UNCHANGED <<pvars, svars>>

\* scale_lines raises: the error leaves the loop.
FetchRaises ==
    /\ mpc = "fetch"
    /\ ScalingRequested
    /\ \E sc \in CallScales : ~ScaleWith(frames[idx + 1], width, height, sc).ok
    /\ exc' = "IndexError"
    /\ mpc' = "finally"
    /\ UNCHANGED <<frames, loop, no_clear, frame_dt, idx, start_time, sleep_for, now,
                   out, flushed, paces, rendered, passes>>
    /\ UNCHANGED <<pvars, argvars, svars>>

\* Home, every line and its newline, flush.
WriteFrame ==
    /\ mpc = "write"
    /\ out' = out \o FrameWrites(lines)
    /\ flushed' = TRUE
    /\ rendered' = rendered + 1
    /\ mpc' = "advance"
    /\ UNCHANGED <<frames, loop, no_clear, frame_dt, idx, start_time, sleep_for, now,
                   exc, paces, passes>>
    /\ UNCHANGED <<pvars, argvars, svars>>

\* Variant: the wrap-around keeps the start time of the first pass.
AdvanceKeepStart ==
    /\ mpc = "advance"
    /\ IF idx + 1 >= Len(frames)
       THEN IF loop
            THEN /\ passes < MaxPasses
                 /\ idx' = 0
                 /\ passes' = passes + 1
                 /\ mpc' = "pace"
                 /\ UNCHANGED start_time
            ELSE /\ idx' = idx + 1
                 /\ mpc' = "finally"
                 /\ UNCHANGED <<start_time, passes>>
       ELSE /\ idx' = idx + 1
            /\ mpc' = "pace"
            /\ UNCHANGED <<start_time, passes>>
    /\ UNCHANGED <<frames, loop, no_clear, frame_dt, sleep_for, now, out, flushed,
                   exc, paces, rendered>>
    /\ UNCHANGED <<pvars, argvars, svars>>

\* idx += 1, then wrap around (loop) or break (no loop) past the last frame.
Advance ==
    /\ mpc = "advance"
    /\ IF idx + 1 >= Len(frames)
       THEN IF loop
            THEN /\ passes < MaxPasses
                 /\ idx' = 0
                 /\ start_time' = now
                 /\ passes' = passes + 1
                 /\ mpc' = "pace"
            ELSE /\ idx' = idx + 1
                 /\ mpc' = "finally"
                 /\ UNCHANGED <<start_time, passes>>
       ELSE /\ idx' = idx + 1
            /\ mpc' = "pace"
            /\ UNCHANGED <<start_time, passes>>
    /\ UNCHANGED <<frames, loop, no_clear, frame_dt, sleep_for, now, out, flushed,
                   exc, paces, rendered>>
    /\ UNCHANGED <<pvars, argvars, svars>>

\* The pacing point: compute sleep_for, sleep only if it is positive.
Pace ==
    /\ mpc = "pace"
    /\ sleep_for' = SleepFor(start_time, idx, frame_dt, now)
    /\ mpc' = IF sleep_for' > 0 THEN "sleep" ELSE "fetch"
    /\ paces' = paces + 1
    /\ UNCHANGED <<frames, loop, no_clear, frame_dt, idx, start_time, now, out, flushed,
                   exc, rendered, passes>>
    /\ UNCHANGED <<pvars, argvars, svars>>

\* time.sleep(sleep_for) returns after at least sleep_for.
Sleep ==
    /\ mpc = "sleep"
    /\ \E over \in 0..MaxOversleep :
          /\ now + sleep_for + over <= MaxTime
          /\ now' = now + sleep_for + over
    /\ mpc' = "fetch"
    /\ UNCHANGED <<frames, loop, no_clear, frame_dt, idx, start_time, sleep_for, out,
                   flushed, exc, paces, rendered, passes>>
    /\ UNCHANGED <<pvars, argvars, svars>>

\* The clock moves on while a frame is fetched, scaled and written.
Tick ==
    /\ mpc \in RunPcs
    /\ now < MaxTime
    /\ now' = now + 1
    /\ UNCHANGED <<frames, loop, no_clear, frame_dt, idx, start_time, sleep_for, out,
                   flushed, exc, mpc, paces, rendered, passes>>
    /\ UNCHANGED <<pvars, argvars, svars>>

\* KeyboardInterrupt anywhere inside the try block; during the writes of a
\* frame any prefix of them has been written and not flushed.
Interrupt ==
    /\ mpc \in LoopPcs
    /\ IF mpc = "write"
       THEN \E k \in 0..Len(FrameWrites(lines)) :
              /\ out' = out \o SubSeq(FrameWrites(lines), 1, k)
              /\ flushed' = (k = 0)
       ELSE UNCHANGED <<out, flushed>>
    /\ exc' = "KeyboardInterrupt"
    /\ mpc' = "finally"
    /\ UNCHANGED <<frames, loop, no_clear, frame_dt, idx, start_time, sleep_for, now,
                   paces, rendered, passes>>
    /\ UNCHANGED <<pvars, argvars, svars>>

\* Variant: the cleanup is skipped when an error is in flight.
FinallyUnlessError ==
    /\ mpc = "finally"
    /\ IF exc = "IndexError"
       THEN UNCHANGED <<out, flushed>>
       ELSE out' = out \o <<RESET, SHOW_CURSOR>> /\ flushed' = TRUE
    /\ mpc' = IF exc = "IndexError" THEN "raised" ELSE "returned"
    /\ UNCHANGED <<frames, loop, no_clear, frame_dt, idx, start_time, sleep_for, now,
                   exc, paces, rendered, passes>>
    /\ UNCHANGED <<pvars, argvars, svars>>

\* except KeyboardInterrupt: pass; finally: reset, show cursor, flush.  A
\* KeyboardInterrupt ends there, any other exception goes on to the caller.
Finally ==
    /\ mpc = "finally"
    /\ out' = out \o <<RESET, SHOW_CURSOR>>
    /\ flushed' = TRUE
    /\ mpc' = IF exc = "IndexError" THEN "raised" ELSE "returned"
    /\ UNCHANGED <<frames, loop, no_clear, frame_dt, idx, start_time, sleep_for, now,
                   exc, paces, rendered, passes>>
    /\ UNCHANGED <<pvars, argvars, svars>>

PlayNext ==
    \/ Setup \/ EnterTry \/ Fetch \/ FetchRaises \/ WriteFrame \/ Advance
    \/ Pace \/ Sleep \/ Tick \/ Interrupt \/ Finally

PlaySpec == PlayInit /\ [][PlayNext]_vars

\* The program is sequential: once in the finally block it runs it.
PlayFairSpec == PlaySpec /\ WF_vars(Finally)

(***************************************************************************)
(* Properties of the playback loop                                         *)
(***************************************************************************)
Exited == mpc \in {"returned", "raised"}

\* C1: every way out of the playback loop (the break after the last frame
\* of a non-looping run, an interrupt anywhere in the loop, an error while
\* a frame is rendered) leads to the finally block, which writes the reset
\* code, then the show-cursor code, and flushes; these are the last writes
\* of the run, and an interrupt is not raised again.
C1_CleanupOnEveryExit ==
    /\ [][(mpc \in LoopPcs /\ mpc' \notin LoopPcs) => mpc' = "finally"]_vars
    /\ [][mpc = "finally" =>
            /\ out' = out \o <<RESET, SHOW_CURSOR>>
            /\ flushed'
            /\ Exited' ]_vars
    /\ [](Exited =>
            /\ Len(out) >= 2
            /\ out[Len(out) - 1] = RESET
            /\ out[Len(out)] = SHOW_CURSOR
            /\ flushed)
    /\ [](exc = "KeyboardInterrupt" => mpc # "raised")
    /\ [][Exited => UNCHANGED out]_vars
    /\ (mpc = "finally" ~> Exited)

\* An interrupt cut the writes of the second frame short, after a line
\* and before its newline.
C1_Witness ==
    /\ mpc = "returned" /\ exc = "KeyboardInterrupt"
    /\ rendered = 1
    /\ Len(out) >= 4
    /\ out[Len(out) - 3] = HOME
    /\ out[Len(out) - 2] = RowI1 \o <<"A">>
    /\ out[Len(out) - 1] = RESET
    /\ out[Len(out)] = SHOW_CURSOR

\* C2: without --loop, frame 0 is rendered without a wait; frame k >= 1 is
\* rendered no earlier than start_time + k * frame_dt, start_time being
\* taken once before frame 0; the wait before frame k is
\* max(0, start_time + k * frame_dt - now); no wait follows the last
\* frame, so a run of N frames has N - 1 pacing points.
C2_DeadlinePacing ==
    /\ [](~loop =>
            /\ mpc \in {"fetch", "write"} => now >= start_time + idx * frame_dt
            /\ mpc \in LoopPcs /\ idx = 0 => paces = 0 /\ mpc # "sleep"
            /\ mpc = "sleep" =>
                  /\ idx >= 1 /\ sleep_for > 0
                  /\ sleep_for = start_time + idx * frame_dt - now
            /\ mpc \in {"fetch", "write", "advance"} => paces = idx
            /\ mpc = "returned" /\ exc = "none" =>
                  /\ rendered = Len(frames)
                  /\ paces = Len(frames) - 1)
    /\ [][~loop /\ mpc \notin {"init", "try"} => start_time' = start_time]_vars
    /\ [][~loop /\ mpc = "pace" /\ mpc' = "fetch" =>
            now' = now /\ start_time + idx * frame_dt - now <= 0]_vars
    /\ [][~loop /\ mpc = "sleep" /\ mpc' = "fetch" => now' >= now + sleep_for]_vars

\* Three frames played to the end; the second was late, so the wait before
\* the third was shorter than the frame interval.
C2_Witness ==
    /\ ~loop /\ mpc = "returned" /\ exc = "none"
    /\ Len(frames) = 3 /\ rendered = 3 /\ paces = 2
    /\ sleep_for = 1 /\ frame_dt = 2
    /\ now >= start_time + 2 * frame_dt

\* The step that passes the last frame.
AtWrap == mpc = "advance" /\ idx + 1 >= Len(frames)

\* C3: with --loop, after the last frame the index goes back to 0 and
\* start_time becomes the current time; the loop is left only by an
\* interrupt or an error; the next deadline is start_time + idx * frame_dt
\* with the new start_time, so none after the first frame of the new pass.
C3_LoopRestart ==
    /\ [][loop /\ AtWrap /\ mpc' \notin {"advance", "finally"} =>
            idx' = 0 /\ start_time' = now /\ mpc' = "pace"]_vars
    /\ [][loop /\ mpc \in LoopPcs /\ mpc' \notin LoopPcs =>
            mpc' = "finally" /\ exc' \in {"KeyboardInterrupt", "IndexError"}]_vars
    /\ [][loop /\ start_time' # start_time => mpc = "try" \/ AtWrap]_vars
    /\ [][loop /\ mpc = "pace" =>
            \/ mpc' = "finally"
            \/ /\ sleep_for' = start_time + idx * frame_dt - now
               /\ mpc' = IF sleep_for' > 0 THEN "sleep" ELSE "fetch"
            \/ UNCHANGED <<mpc, sleep_for>>]_vars
    /\ [](loop /\ mpc = "sleep" =>
            idx >= 1 /\ sleep_for = start_time + idx * frame_dt - now)
    /\ [](loop /\ mpc \in {"fetch", "write"} => now >= start_time + idx * frame_dt)

\* In the second pass, waiting for the deadline of frame 1 of that pass.
C3_Witness ==
    /\ loop /\ passes = 1 /\ Len(frames) = 2
    /\ mpc = "sleep" /\ idx = 1
    /\ start_time >= 2
    /\ sleep_for = start_time + frame_dt - now
====
